---- MODULE Spec2Model ----
(***************************************************************************)
(* A model of the bookkeeper package: the ParameterFile type coercion and  *)
(* serialisation (bookkeeper/__init__.py), the cholla Simulation status    *)
(* queries and restart (bookkeeper/cholla.py), and the nautilus            *)
(* SimulationGrid discovery and filters (bookkeeper/nautilus.py).          *)
(*                                                                         *)
(* Text is a sequence of one-character strings, so that float(), the       *)
(* sentinel comparison, the quote stripping and the formatting are         *)
(* computed character by character.                                        *)
(***************************************************************************)
EXTENDS Integers, Sequences, FiniteSets, TLC

VARIABLES
    \* ---- ParameterFile (and the parameter file on disk)
    disk,       \* the lines of the file at ParameterFile.path
    params,     \* ParameterFile.params: ordered key -> typed value mapping
    perr,       \* the exception the last ParameterFile operation raised
    warned,     \* whether the last __setitem__ emitted the new-key warning
    lastop,     \* the last operation performed (history)
    \* ---- cholla Simulation.restart
    chk,        \* the checkpoint files of the folder (their numeric suffixes)
    rpc,        \* position inside restart()
    runs,       \* what the parameter file held at each run of the command
    before,     \* params and disk when restart() was entered (history)
    \* ---- cholla Simulation status queries against a running job
    slurm,      \* slurm*.out files, in modification-time order
    jobSteps,   \* how many times the job has touched the folder
    qkind,      \* the property being evaluated
    qpc,        \* position inside that evaluation
    qpick,      \* the file slurm_files[-1] named, to be opened next
    qres,       \* results: what complete / reason_incomplete / failed returned
    dirty,      \* whether the job touched the folder during the evaluation
    \* ---- nautilus SimulationGrid
    dirs,       \* the directory tree: which folders hold input.txt / a log
    grid,       \* the SimulationGrid object (or the failure to construct it)
    gout        \* the result of the last access to the grid

parVars == <<disk, params, perr, warned, lastop>>
restartVars == <<chk, rpc, runs, before>>
statusVars == <<slurm, jobSteps, qkind, qpc, qpick, qres, dirty>>
gridVars == <<dirs, grid, gout>>
vars == <<parVars, restartVars, statusVars, gridVars>>

-----------------------------------------------------------------------------
(* Text helpers *)

Digits == <<"0", "1", "2", "3", "4", "5", "6", "7", "8", "9">>

IsDigit(c) == \E i \in 1..10 : Digits[i] = c

DigitVal(c) == (CHOOSE i \in 1..10 : Digits[i] = c) - 1

AllDigits(t) == \A i \in 1..Len(t) : IsDigit(t[i])

RECURSIVE NatToText(_)
NatToText(n) ==
    IF n < 10 THEN <<Digits[n + 1]>>
    ELSE NatToText(n \div 10) \o <<Digits[(n % 10) + 1]>>

RECURSIVE TextToNat(_)
TextToNat(t) ==
    IF t = <<>> THEN 0
    ELSE 10 * TextToNat(SubSeq(t, 1, Len(t) - 1)) + DigitVal(t[Len(t)])

\* f"{n:d}"
IntToText(n) == IF n < 0 THEN <<"-">> \o NatToText(-n) ELSE NatToText(n)

\* position of the first c in t, 0 when absent
IndexOf(t, c) ==
    IF \E i \in 1..Len(t) : t[i] = c
    THEN CHOOSE i \in 1..Len(t) : t[i] = c /\ \A j \in 1..(i - 1) : t[j] # c
    ELSE 0

RECURSIVE StripTrailingZeros(_)
StripTrailingZeros(t) ==
    IF t # <<>> /\ t[Len(t)] = "0"
    THEN StripTrailingZeros(SubSeq(t, 1, Len(t) - 1))
    ELSE t

RECURSIVE StripLeadingZeros(_)
StripLeadingZeros(t) ==
    IF t # <<>> /\ t[1] = "0" THEN StripLeadingZeros(Tail(t)) ELSE t

RECURSIVE Zeros(_)
Zeros(n) == IF n <= 0 THEN <<>> ELSE <<"0">> \o Zeros(n - 1)

-----------------------------------------------------------------------------
(* Typed parameter values: SimulationParameter = bool | int | float | str. *)
(* A float is the decimal n / 10^d; d = 0 is an integer-valued float such  *)
(* as 2.0.  Every value carries all four fields so that values of          *)
(* different kinds can be compared.                                        *)

BoolVal(b) == [kind |-> "bool", n |-> IF b THEN 1 ELSE 0, d |-> 0, s |-> <<>>]

IntVal(n) == [kind |-> "int", n |-> n, d |-> 0, s |-> <<>>]

FloatVal(n, d) == [kind |-> "float", n |-> n, d |-> d, s |-> <<>>]

StrVal(s) == [kind |-> "str", n |-> 0, d |-> 0, s |-> s]

\* The variant points of the concrete ParameterFile classes (both variants
\* return the same three values).
QuotesAroundString == FALSE

TrueString == <<"1">>

FalseString == <<"0">>

-----------------------------------------------------------------------------
(* float(text): [sign] digits [. digits] [e [sign] digits], inf, infinity, *)
(* nan.  The result is n / 10^d with the trailing zeros of the fraction    *)
(* removed, so d = 0 exactly when the value is an integer.  The values of  *)
(* the model have few digits, for which the binary float is read and       *)
(* printed back exactly.                                                   *)

NoFloat == [ok |-> FALSE, sp |-> "fin", neg |-> FALSE, m |-> 0, d |-> 0]

SignOf(t) ==
    IF t # <<>> /\ t[1] \in {"+", "-"}
    THEN [neg |-> t[1] = "-", rest |-> Tail(t)]
    ELSE [neg |-> FALSE, rest |-> t]

Min(a, b) == IF a < b THEN a ELSE b

\* the digits ipart.fpart times 10^exp
Decimal(neg, ipart, fpart, exp) ==
    LET p0  == Len(fpart) - exp
        all == IF p0 < 0 THEN ipart \o fpart \o Zeros(-p0) ELSE ipart \o fpart
        p   == IF p0 < 0 THEN 0 ELSE p0
        tz  == Len(all) - Len(StripTrailingZeros(all))
        k   == Min(tz, p)
        m   == TextToNat(StripLeadingZeros(SubSeq(all, 1, Len(all) - k)))
    IN  [ok |-> TRUE, sp |-> "fin", neg |-> neg, m |-> m,
         d |-> IF m = 0 THEN 0 ELSE p - k]

ParseFloat(text) ==
    LET sg   == SignOf(text)
        body == sg.rest
        e    == IndexOf(body, "e")
        mant == IF e = 0 THEN body ELSE SubSeq(body, 1, e - 1)
        ex   == IF e = 0 THEN <<>> ELSE SignOf(SubSeq(body, e + 1, Len(body))).rest
        exNeg == e # 0 /\ SignOf(SubSeq(body, e + 1, Len(body))).neg
        dot  == IndexOf(mant, ".")
        ip   == IF dot = 0 THEN mant ELSE SubSeq(mant, 1, dot - 1)
        fp   == IF dot = 0 THEN <<>> ELSE SubSeq(mant, dot + 1, Len(mant))
    IN  IF body \in {<<"i", "n", "f">>,
                     <<"i", "n", "f", "i", "n", "i", "t", "y">>}
        THEN [ok |-> TRUE, sp |-> "inf", neg |-> sg.neg, m |-> 0, d |-> 0]
        ELSE IF body = <<"n", "a", "n">>
        THEN [ok |-> TRUE, sp |-> "nan", neg |-> sg.neg, m |-> 0, d |-> 0]
        ELSE IF /\ AllDigits(ip) /\ AllDigits(fp) /\ Len(ip) + Len(fp) >= 1
                /\ (e # 0 => (ex # <<>> /\ AllDigits(ex)))
        THEN Decimal(sg.neg, ip, fp,
                     IF exNeg THEN -TextToNat(ex) ELSE TextToNat(ex))
        ELSE NoFloat

-----------------------------------------------------------------------------
(* ParameterFile.__convert_to_correct_type.  float(text) raising           *)
(* ValueError, and int(nan) raising ValueError, both land in the except    *)
(* branch; int(inf) raises OverflowError, which nothing catches.           *)

ConvertToCorrectType(text) ==
    LET f == ParseFloat(text)
        n == IF f.neg THEN -f.m ELSE f.m
    IN  IF f.ok /\ f.sp = "inf"
        THEN [err |-> "OverflowError", val |-> StrVal(<<>>)]
        ELSE IF f.ok /\ f.sp = "fin"
        THEN [err |-> "none",
              val |-> IF f.d = 0 THEN IntVal(n) ELSE FloatVal(n, f.d)]
        ELSE [err |-> "none",
              val |-> IF text = TrueString THEN BoolVal(TRUE)
                      ELSE IF text = FalseString THEN BoolVal(FALSE)
                      ELSE IF text # <<>> /\ text[1] = "\""
                      THEN StrVal(SubSeq(text, 2, Len(text) - 1))
                      ELSE StrVal(text)]

\* f"{val:.15e}" of the float n / 10^d
Format15e(n, d) ==
    LET a    == IF n < 0 THEN -n ELSE n
        ds   == NatToText(a)
        ex   == Len(ds) - 1 - d
        ax   == IF ex < 0 THEN -ex ELSE ex
        frac == Tail(ds) \o Zeros(15 - Len(Tail(ds)))
    IN  (IF n < 0 THEN <<"-">> ELSE <<>>) \o <<ds[1], ".">> \o frac
        \o <<"e", IF ex < 0 THEN "-" ELSE "+">>
        \o (IF ax < 10 THEN <<"0">> ELSE <<>>) \o NatToText(ax)

\* ParameterFile.__convert_to_string
ConvertToString(val) ==
    IF val.kind = "float"
    THEN IF val.d = 0 THEN IntToText(val.n) ELSE Format15e(val.n, val.d)
    ELSE IF val.kind = "bool" /\ val.n = 1 THEN TrueString
    ELSE IF val.kind = "bool" THEN FalseString
    ELSE IF val.kind = "int" THEN IntToText(val.n)
    ELSE IF QuotesAroundString THEN <<"\"">> \o val.s \o <<"\"">>
    ELSE val.s

-----------------------------------------------------------------------------
(* The parameter file on disk: one line per entry.  A line with a          *)
(* delimiter is key=text; a line without one is what configparser rejects. *)
(* Keys are lower case, as configparser's optionxform leaves them.         *)

Keys == {"a", "b"}

MaxLines == 2

Line(k, t) == [key |-> k, text |-> t, delim |-> TRUE]

Garbage == [key |-> "", text |-> <<"g">>, delim |-> FALSE]

\* value texts an editor of the file may type
EditTexts ==
    { <<"1">>, <<"0">>, <<"2", ".", "0">>, <<"1", ".", "5">>,
      <<"i", "n", "f">>, <<"n", "a", "n">>, <<"a">>, <<"\"", "a", "\"">> }

EditLines == {Line(k, t) : k \in Keys, t \in EditTexts} \cup {Garbage}

\* values a caller may assign with par[key] = value
SetValues ==
    { BoolVal(TRUE), BoolVal(FALSE), IntVal(1), IntVal(-2),
      FloatVal(2, 0), FloatVal(-25, 2),
      StrVal(<<"a">>), StrVal(<<"\"", "a", "\"">>), StrVal(<<"1", ".", "5">>) }

HasKey(ps, k) == \E i \in 1..Len(ps) : ps[i].key = k

\* configparser.read_string("[main]\n" + text): a repeated option raises
\* DuplicateOptionError at its line; delimiter-less lines are collected and
\* raise ParsingError once the whole text was scanned.
RECURSIVE ParseLines(_, _, _)
ParseLines(lines, i, acc) ==
    IF i > Len(lines)
    THEN IF acc.bad THEN [acc EXCEPT !.err = "ParsingError"] ELSE acc
    ELSE IF ~lines[i].delim
    THEN ParseLines(lines, i + 1, [acc EXCEPT !.bad = TRUE])
    ELSE IF HasKey(acc.entries, lines[i].key)
    THEN [acc EXCEPT !.err = "DuplicateOptionError"]
    ELSE ParseLines(lines, i + 1,
             [acc EXCEPT !.entries =
                 Append(@, [key |-> lines[i].key, text |-> lines[i].text])])

ParseFile(lines) ==
    ParseLines(lines, 1, [err |-> "none", bad |-> FALSE, entries |-> <<>>])

\* the loop of read(): self.params[key] = convert(val), entry after entry,
\* into the mapping that was just emptied; an exception leaves what was stored
RECURSIVE Load(_, _, _)
Load(entries, i, acc) ==
    IF i > Len(entries) THEN [err |-> "none", params |-> acc]
    ELSE LET c == ConvertToCorrectType(entries[i].text)
         IN  IF c.err # "none" THEN [err |-> c.err, params |-> acc]
             ELSE Load(entries, i + 1,
                       Append(acc, [key |-> entries[i].key, val |-> c.val]))

\* ParameterFile.read as a function of the file and the mapping held so far
ReadResult(lines, old) ==
    LET p == ParseFile(lines)
    IN  IF p.err # "none" THEN [err |-> p.err, params |-> old]
        ELSE Load(p.entries, 1, <<>>)

\* self.params[key] = value on an insertion-ordered dict
SetKey(ps, k, v) ==
    IF HasKey(ps, k)
    THEN [i \in 1..Len(ps) |-> IF ps[i].key = k THEN [key |-> k, val |-> v] ELSE ps[i]]
    ELSE Append(ps, [key |-> k, val |-> v])

\* the lines write() produces
Serialize(ps) ==
    [i \in 1..Len(ps) |-> Line(ps[i].key, ConvertToString(ps[i].val))]

ValueOf(ps, k) == ps[CHOOSE i \in 1..Len(ps) : ps[i].key = k].val

-----------------------------------------------------------------------------
(* ParameterFile operations *)

Read ==
    /\ LET r == ReadResult(disk, params)
       IN  params' = r.params /\ perr' = r.err
    /\ warned' = FALSE
    /\ lastop' = "read"
    /\ UNCHANGED <<disk, restartVars, statusVars, gridVars>>

SetItem(k, v) ==
    /\ warned' = ~HasKey(params, k)
    /\ params' = SetKey(params, k, v)
    /\ perr' = "none"
    /\ lastop' = "set"
    /\ UNCHANGED <<disk, restartVars, statusVars, gridVars>>

Write ==
    /\ disk' = Serialize(params)
    /\ perr' = "none"
    /\ warned' = FALSE
    /\ lastop' = "write"
    /\ UNCHANGED <<params, restartVars, statusVars, gridVars>>

\* somebody else edits the file: appends a line, or empties it
EditAppend(l) ==
    /\ Len(disk) < MaxLines
    /\ disk' = Append(disk, l)
    /\ lastop' = "edit"
    /\ UNCHANGED <<params, perr, warned, restartVars, statusVars, gridVars>>

EditTruncate ==
    /\ disk # <<>>
    /\ disk' = <<>>
    /\ lastop' = "edit"
    /\ UNCHANGED <<params, perr, warned, restartVars, statusVars, gridVars>>

\* files of up to MaxLines lines
RECURSIVE FilesUpTo(_)
FilesUpTo(n) ==
    IF n = 0 THEN {<<>>}
    ELSE FilesUpTo(n - 1) \cup
         {Append(f, l) : f \in {g \in FilesUpTo(n - 1) : Len(g) = n - 1},
                         l \in EditLines}

-----------------------------------------------------------------------------
(* cholla Simulation status.  A slurm*.out file is its id and the set of   *)
(* marker substrings its text contains: the code only ever asks whether a  *)
(* literal occurs in the text.  slurm lists the files by modification      *)
(* time, oldest first; writing to a file makes it the newest.  One         *)
(* evaluation of slurm_files sees the folder at one instant; the job may   *)
(* write between any two evaluations and before the file named by          *)
(* slurm_files[-1] is opened.                                              *)

MaxFiles == 2

MaxJobSteps == 5

StartMarkers == {"Driver init all done", "RuntimeParameters"}

DoneMarker == "reached max SimTime"

TimeMarker == "DUE TO TIME LIMIT"

PreemptMarker == "DUE TO PREEMPTION"

AbortMarker == "DRIVER_ABORT"

Markers ==
    StartMarkers \cup {DoneMarker, TimeMarker, PreemptMarker, AbortMarker}

\* a line of output that contains none of the markers
PlainLine == "plain"

IsFlashLog(f) == f.marks \cap StartMarkers # {}

\* Simulation.slurm_files: the files sorted by mtime, those with a start
\* marker kept
SlurmFiles(files) == SelectSeq(files, IsFlashLog)

ContentOf(files, id) ==
    (CHOOSE f \in {files[i] : i \in 1..Len(files)} : f.id = id).marks

\* the if / elif chain of reason_incomplete
ReasonOfMissingCrash(contents) ==
    IF TimeMarker \in contents THEN "time limit"
    ELSE IF PreemptMarker \in contents THEN "preemption"
    ELSE "unknown"

ReasonOf(contents) ==
    IF TimeMarker \in contents THEN "time limit"
    ELSE IF PreemptMarker \in contents THEN "preemption"
    ELSE IF AbortMarker \in contents THEN "crashed"
    ELSE "unknown"

\* reason_incomplete not in ['unknown', "not ran"]
FailedOf(reason) == reason \notin {"unknown", "not ran"}

NoResult ==
    [complete |-> "none", reason |-> "none", failed |-> "none", err |-> "none"]

Tri(b) == IF b THEN "true" ELSE "false"

Running == qpc[1] \notin {"idle", "done"}

\* ---- the job, an external process writing into the folder

JobCreate ==
    /\ jobSteps < MaxJobSteps
    /\ Len(slurm) < MaxFiles
    /\ LET id == CHOOSE i \in 1..MaxFiles :
                     /\ \A j \in 1..Len(slurm) : slurm[j].id # i
                     /\ \A k \in 1..(i - 1) : \E j \in 1..Len(slurm) : slurm[j].id = k
       IN  slurm' = Append(slurm, [id |-> id, marks |-> {}])
    /\ jobSteps' = jobSteps + 1
    /\ dirty' = (dirty \/ qpc[1] # "idle")
    /\ UNCHANGED <<qkind, qpc, qpick, qres, parVars, restartVars, gridVars>>

JobAppend(i, m) ==
    /\ jobSteps < MaxJobSteps
    /\ i \in 1..Len(slurm)
    /\ LET f == [slurm[i] EXCEPT !.marks = IF m = PlainLine THEN @ ELSE @ \cup {m}]
           rest == [j \in 1..(Len(slurm) - 1) |->
                       IF j < i THEN slurm[j] ELSE slurm[j + 1]]
       IN  slurm' = Append(rest, f)
    /\ jobSteps' = jobSteps + 1
    /\ dirty' = (dirty \/ qpc[1] # "idle")
    /\ UNCHANGED <<qkind, qpc, qpick, qres, parVars, restartVars, gridVars>>

\* ---- the evaluation of complete, reason_incomplete or failed, one
\* ---- filesystem read per step

\* complete returns v to whoever called it
ReturnComplete(v) ==
    IF qpc[1] = "assert"
    THEN \* assert not self.complete, "Simulation finished"
         IF v THEN /\ qres' = [qres EXCEPT !.err = "AssertionError"]
                   /\ qpc' = <<"done", "-">>
              ELSE /\ qres' = qres
                   /\ qpc' = <<"reason", "len">>
    ELSE IF qkind = "complete"
         THEN /\ qres' = [qres EXCEPT !.complete = Tri(v)]
              /\ qpc' = <<"done", "-">>
         ELSE \* failed: if self.complete: sim_failed = False
              IF v THEN /\ qres' = [qres EXCEPT !.complete = "true", !.failed = "false"]
                        /\ qpc' = <<"done", "-">>
                   ELSE /\ qres' = [qres EXCEPT !.complete = "false"]
                        /\ qpc' = <<"assert", "len">>

\* reason_incomplete returns r to whoever called it
ReturnReason(r) ==
    /\ qres' = IF qkind = "failed"
               THEN [qres EXCEPT !.reason = r, !.failed = Tri(FailedOf(r))]
               ELSE [qres EXCEPT !.reason = r]
    /\ qpc' = <<"done", "-">>

QueryStart(kind) ==
    /\ ~Running
    /\ qkind' = kind
    /\ qpc' = IF kind = "reason_incomplete" THEN <<"assert", "len">>
              ELSE <<"complete", "len">>
    /\ qpick' = 0
    /\ qres' = NoResult
    /\ dirty' = FALSE
    /\ UNCHANGED <<slurm, jobSteps, parVars, restartVars, gridVars>>

\* len(self.slurm_files) == 0
ScanLen ==
    /\ Running /\ qpc[2] = "len"
    /\ IF Len(SlurmFiles(slurm)) = 0
       THEN IF qpc[1] = "reason" THEN ReturnReason("not ran")
            ELSE ReturnComplete(FALSE)
       ELSE qpc' = <<qpc[1], "pick">> /\ qres' = qres
    /\ UNCHANGED <<slurm, jobSteps, qkind, qpick, dirty, parVars, restartVars, gridVars>>

\* self.slurm_files[-1]
ScanPick ==
    /\ Running /\ qpc[2] = "pick"
    /\ LET fs == SlurmFiles(slurm)
       IN  IF Len(fs) = 0
           THEN /\ qres' = [qres EXCEPT !.err = "IndexError"]
                /\ qpc' = <<"done", "-">>
                /\ qpick' = qpick
           ELSE /\ qpick' = fs[Len(fs)].id
                /\ qpc' = <<qpc[1], "open">>
                /\ qres' = qres
    /\ UNCHANGED <<slurm, jobSteps, qkind, dirty, parVars, restartVars, gridVars>>

\* with open(...) as myfile: ... in myfile.read()
OpenLast ==
    /\ Running /\ qpc[2] = "open"
    /\ LET contents == ContentOf(slurm, qpick)
       IN  IF qpc[1] = "reason" THEN ReturnReason(ReasonOf(contents))
           ELSE ReturnComplete(DoneMarker \in contents)
    /\ UNCHANGED <<slurm, jobSteps, qkind, qpick, dirty, parVars, restartVars, gridVars>>

-----------------------------------------------------------------------------
(* cholla Simulation.restart.  A checkpoint file is the text after the     *)
(* last "_" of its name; the names share what comes before it, so that     *)
(* sorted(glob(...)) orders them by that text, character by character.     *)

MaxDigits == 2

MaxChk == 2

MaxRuns == 2

ChkDigits == {"0", "1", "2"}

RECURSIVE TextsOfLen(_)
TextsOfLen(n) ==
    IF n = 0 THEN {<<>>}
    ELSE {Append(t, c) : t \in TextsOfLen(n - 1), c \in ChkDigits}

ChkNames == UNION {TextsOfLen(n) : n \in 1..MaxDigits}

\* str.__lt__ on texts of digits
RECURSIVE LexLess(_, _)
LexLess(a, b) ==
    IF a = <<>> THEN b # <<>>
    ELSE IF b = <<>> THEN FALSE
    ELSE IF a[1] # b[1] THEN DigitVal(a[1]) < DigitVal(b[1])
    ELSE LexLess(Tail(a), Tail(b))

\* Simulation.checkpoints[-1]: the last of the sorted names
LastCheckpoint(names) ==
    CHOOSE c \in names : \A o \in names \ {c} : LexLess(o, c)

\* Checkpoint.number: int(name.split("_")[-1])
Number(c) == TextToNat(c)

RestartReturned == rpc \in {"idle", "done", "IndexError", "CalledProcessError"}

\* the job writes a checkpoint (it runs while restart() does not)
CreateCheckpoint(c) ==
    /\ RestartReturned
    /\ c \notin chk
    /\ Cardinality(chk) < MaxChk
    /\ chk' = chk \cup {c}
    /\ UNCHANGED <<rpc, runs, before, parVars, statusVars, gridVars>>

\* self.par.params['restart'] = True
RestartSetFlag ==
    /\ RestartReturned
    /\ Len(runs) < MaxRuns
    /\ before' = [params |-> params, disk |-> disk, runs |-> runs]
    /\ params' = SetKey(params, "restart", BoolVal(TRUE))
    /\ rpc' = "flagged"
    /\ lastop' = "restart"
    /\ UNCHANGED <<chk, runs, disk, perr, warned, statusVars, gridVars>>

\* self.par.params['checkpointfilenumber'] = self.checkpoints[-1].number
RestartSetNumber ==
    /\ rpc = "flagged"
    /\ IF chk = {}
       THEN rpc' = "IndexError" /\ params' = params
       ELSE /\ params' = SetKey(params, "checkpointfilenumber",
                                IntVal(Number(LastCheckpoint(chk))))
            /\ rpc' = "numbered"
    /\ UNCHANGED <<chk, runs, before, disk, perr, warned, lastop, statusVars, gridVars>>

\* self.par.write()
RestartWrite ==
    /\ rpc = "numbered"
    /\ disk' = Serialize(params)
    /\ rpc' = "written"
    /\ UNCHANGED <<chk, runs, before, params, perr, warned, lastop, statusVars, gridVars>>

\* self.run(submit_command): subprocess.run(..., check=True)
RestartRun(ok) ==
    /\ rpc = "written"
    /\ runs' = Append(runs, [by |-> "restart", disk |-> disk])
    /\ rpc' = IF ok THEN "done" ELSE "CalledProcessError"
    /\ UNCHANGED <<chk, before, parVars, statusVars, gridVars>>

\* Simulation.run called on its own
RunCommand(ok) ==
    /\ RestartReturned
    /\ Len(runs) < MaxRuns
    /\ runs' = Append(runs, [by |-> "run", disk |-> disk])
    /\ rpc' = IF ok THEN "done" ELSE "CalledProcessError"
    /\ UNCHANGED <<chk, before, parVars, statusVars, gridVars>>

-----------------------------------------------------------------------------
(* nautilus SimulationGrid.  The directories are 1..MaxDirs, directory d   *)
(* lying inside directory d \div 2, and 1 at the top.  A directory is a    *)
(* simulation folder when it holds a file input.txt; its output.log is     *)
(* absent, present without the completion text, or present with it.  The   *)
(* input.txt files of the tree are files that load: constructing a         *)
(* Simulation reads the file, and raises what ParameterFile.read raises.   *)

MaxDirs == 4

MaxRoots == 2

Dirs == 1..MaxDirs

Children(d) == SelectSeq(<<2 * d, 2 * d + 1>>, LAMBDA c : c \in Dirs)

\* root_path.rglob("*/"): everything below the root, the root itself not
\* included, a directory before what it holds
RECURSIVE RGlob(_)
RGlobWithRoot(root) ==
    LET cs == Children(root)
        below(i) == IF i > Len(cs) THEN <<>> ELSE RGlob(cs[i])
    IN  <<root>> \o below(1) \o below(2)

RGlob(root) ==
    LET cs == Children(root)
        below(i) == IF i > Len(cs) THEN <<>> ELSE <<cs[i]>> \o RGlob(cs[i])
    IN  below(1) \o below(2)

\* SimulationGrid._is_sim_folder: (path / "input.txt").is_file()
IsSimFolder(tree, d) == tree[d].par

\* the body of the loop of sim_paths for one root
PathsUnder(tree, root) ==
    (IF IsSimFolder(tree, root) THEN <<root>> ELSE <<>>)
    \o SelectSeq(RGlob(root), LAMBDA d : IsSimFolder(tree, d))

\* SimulationGrid.sim_paths over the roots the iteration yields
RECURSIVE SimPaths(_, _)
SimPaths(tree, roots) ==
    IF roots = <<>> THEN <<>>
    ELSE PathsUnder(tree, Head(roots)) \o SimPaths(tree, Tail(roots))

\* for root_path in self._paths_to_search: a list or tuple yields its items
\* every time, an iterator yields them once
Yielded(g) == IF g.kind = "gen" /\ g.spent THEN <<>> ELSE g.roots

AfterIteration(g) == [g EXCEPT !.spent = (g.kind = "gen")]

\* nautilus Simulation.complete
SimComplete(tree, d) == tree[d].log = "complete"

NoGrid ==
    [state |-> "none", kind |-> "none", roots |-> <<>>, spent |-> FALSE,
     ctor |-> <<>>]

NoAccess == [op |-> "none", paths |-> <<>>, err |-> "none"]

\* SimulationGrid.__init__: keep an iterable as it is, wrap a single path in
\* a list, then assert len(self.sims) > 0
Construct(kind, roots) ==
    /\ grid.state = "none"
    /\ kind = "path" => Len(roots) = 1
    /\ LET g     == [NoGrid EXCEPT !.kind = kind, !.roots = roots]
           found == SimPaths(dirs, Yielded(g))
       IN  /\ grid' = [AfterIteration(g) EXCEPT
                          !.state = IF Len(found) > 0 THEN "ok" ELSE "AssertionError",
                          !.ctor = found]
           /\ gout' = [op |-> "init", paths |-> found,
                       err |-> IF Len(found) > 0 THEN "none" ELSE "AssertionError"]
    /\ UNCHANGED <<dirs, parVars, restartVars, statusVars>>

\* grid.sims, grid.sim_paths, len(grid), iter(grid)
AccessSims ==
    /\ grid.state = "ok"
    /\ gout' = [op |-> "sims", paths |-> SimPaths(dirs, Yielded(grid)), err |-> "none"]
    /\ grid' = AfterIteration(grid)
    /\ UNCHANGED <<dirs, parVars, restartVars, statusVars>>

\* grid.complete_sims
AccessCompleteSims ==
    /\ grid.state = "ok"
    /\ gout' = [op |-> "complete_sims",
                paths |-> SelectSeq(SimPaths(dirs, Yielded(grid)),
                                    LAMBDA d : SimComplete(dirs, d)),
                err |-> "none"]
    /\ grid' = AfterIteration(grid)
    /\ UNCHANGED <<dirs, parVars, restartVars, statusVars>>

\* grid.incomplete_sims
AccessIncompleteSims ==
    /\ grid.state = "ok"
    /\ gout' = [op |-> "incomplete_sims",
                paths |-> SelectSeq(SimPaths(dirs, Yielded(grid)),
                                    LAMBDA d : ~SimComplete(dirs, d)),
                err |-> "none"]
    /\ grid' = AfterIteration(grid)
    /\ UNCHANGED <<dirs, parVars, restartVars, statusVars>>

\* grid.failed_sims: nautilus Simulation.failed raises NotImplementedError
\* for the first simulation the list holds
AccessFailedSims ==
    /\ grid.state = "ok"
    /\ LET sims == SimPaths(dirs, Yielded(grid))
       IN  gout' = [op |-> "failed_sims", paths |-> <<>>,
                    err |-> IF sims = <<>> THEN "none" ELSE "NotImplementedError"]
    /\ grid' = AfterIteration(grid)
    /\ UNCHANGED <<dirs, parVars, restartVars, statusVars>>

-----------------------------------------------------------------------------
(* The parts of the state a specification does not exercise stay as they   *)
(* are constructed.                                                        *)

ParIdle ==
    /\ disk = <<>> /\ params = <<>> /\ perr = "none"
    /\ warned = FALSE /\ lastop = "new"

RestartIdle ==
    /\ chk = {} /\ rpc = "idle" /\ runs = <<>>
    /\ before = [params |-> <<>>, disk |-> <<>>, runs |-> <<>>]

StatusIdle ==
    /\ slurm = <<>> /\ jobSteps = 0 /\ qkind = "none" /\ qpc = <<"idle", "-">>
    /\ qpick = 0 /\ qres = NoResult /\ dirty = FALSE

GridIdle ==
    /\ dirs = [d \in Dirs |-> [par |-> FALSE, log |-> "none"]]
    /\ grid = NoGrid /\ gout = NoAccess

-----------------------------------------------------------------------------
(* Specification of a ParameterFile: constructed by reading a file that    *)
(* loads, then read, assigned to and written while the file is edited.     *)

InitParam ==
    /\ disk \in {f \in FilesUpTo(MaxLines) : ReadResult(f, <<>>).err = "none"}
    /\ params = ReadResult(disk, <<>>).params
    /\ perr = "none"
    /\ warned = FALSE
    /\ lastop = "new"
    /\ RestartIdle /\ StatusIdle /\ GridIdle

NextParam ==
    \/ Read
    \/ \E k \in Keys, v \in SetValues : SetItem(k, v)
    \/ Write
    \/ \E l \in EditLines : EditAppend(l)
    \/ EditTruncate

SpecParam == InitParam /\ [][NextParam]_vars

-----------------------------------------------------------------------------
(* Specification of the status queries of a cholla Simulation whose folder *)
(* a job is writing to.  The folder starts without logs.                   *)

InitStatus ==
    /\ StatusIdle
    /\ ParIdle /\ RestartIdle /\ GridIdle

NextStatus ==
    \/ JobCreate
    \/ \E i \in 1..MaxFiles, m \in Markers \cup {PlainLine} : JobAppend(i, m)
    \/ \E kind \in {"complete", "reason_incomplete", "failed"} : QueryStart(kind)
    \/ ScanLen
    \/ ScanPick
    \/ OpenLast

SpecStatus == InitStatus /\ [][NextStatus]_vars

-----------------------------------------------------------------------------
(* Specification of restart(): a cholla Simulation constructed over a      *)
(* folder whose input.txt loads, restarted and run while the job adds      *)
(* checkpoints.                                                            *)

InitialParameterFiles ==
    { <<>>,
      <<Line("restart", <<"0">>), Line("checkpointfilenumber", <<"0">>)>>,
      <<Line("a", <<"1", ".", "5">>), Line("restart", <<"1">>),
        Line("checkpointfilenumber", <<"2">>)>> }

InitRestart ==
    /\ disk \in InitialParameterFiles
    /\ params = ReadResult(disk, <<>>).params
    /\ perr = "none" /\ warned = FALSE /\ lastop = "new"
    /\ chk \in {c \in SUBSET ChkNames : Cardinality(c) <= 1}
    /\ rpc = "idle" /\ runs = <<>>
    /\ before = [params |-> <<>>, disk |-> <<>>, runs |-> <<>>]
    /\ StatusIdle /\ GridIdle

NextRestart ==
    \/ \E c \in ChkNames : CreateCheckpoint(c)
    \/ RestartSetFlag
    \/ RestartSetNumber
    \/ RestartWrite
    \/ \E ok \in BOOLEAN : RestartRun(ok)
    \/ \E ok \in BOOLEAN : RunCommand(ok)

SpecRestart == InitRestart /\ [][NextRestart]_vars

-----------------------------------------------------------------------------
(* Specification of a nautilus SimulationGrid over a directory tree that   *)
(* does not change: constructed from a path, a list or a one-shot iterator *)
(* of paths, then queried.                                                 *)

Folders ==
    { [par |-> FALSE, log |-> "none"] } \cup
    { [par |-> TRUE, log |-> l] : l \in {"none", "partial", "complete"} }

RECURSIVE RootLists(_)
RootLists(n) ==
    IF n = 0 THEN {<<>>}
    ELSE RootLists(n - 1) \cup
         {Append(r, d) : r \in {q \in RootLists(n - 1) : Len(q) = n - 1}, d \in Dirs}

InitGrid ==
    /\ dirs \in [Dirs -> Folders]
    /\ grid = NoGrid
    /\ gout = NoAccess
    /\ ParIdle /\ RestartIdle /\ StatusIdle

NextGrid ==
    \/ \E kind \in {"path", "list", "gen"}, roots \in RootLists(MaxRoots) :
           Construct(kind, roots)
    \/ AccessSims
    \/ AccessCompleteSims
    \/ AccessIncompleteSims
    \/ AccessFailedSims

SpecGrid == InitGrid /\ [][NextGrid]_vars

-----------------------------------------------------------------------------
(* Properties of the ParameterFile *)

\* the one collapse a round trip is allowed: 2.0 comes back as 2
Collapsed(ps) ==
    [i \in 1..Len(ps) |->
        IF ps[i].val.kind = "float" /\ ps[i].val.d = 0
        THEN [ps[i] EXCEPT !.val = IntVal(ps[i].val.n)]
        ELSE ps[i]]

\* C1: write() followed by read() reproduces the mapping: the same keys in
\* the same order, each with the same value of the same kind, an
\* integer-valued float becoming the integer.
C1_RoundTrip ==
    [][(lastop = "write" /\ lastop' = "read") =>
          (perr' = "none" /\ params' = Collapsed(params))]_vars

\* C2: after a successful read, every entry whose text is exactly the true
\* or the false sentinel is stored as that boolean, and serialising the
\* stored value gives the text again.
C2_SentinelIsBoolean ==
    (lastop = "read" /\ perr = "none") =>
        \A i \in 1..Len(disk) :
            disk[i].text \in {TrueString, FalseString} =>
                /\ params[i].val = BoolVal(disk[i].text = TrueString)
                /\ ConvertToString(params[i].val) = disk[i].text

\* the mapping holds the first entries of the file, converted, and not all
PartlyLoaded ==
    LET es == ParseFile(disk).entries
    IN  /\ ParseFile(disk).err = "none"
        /\ 0 < Len(params) /\ Len(params) < Len(es)
        /\ \A i \in 1..Len(params) :
              /\ params[i].key = es[i].key
              /\ params[i].val = ConvertToCorrectType(es[i].text).val

\* C7: read() is all or nothing: after a successful read the mapping has
\* exactly the keys of the file, and after a failed one it does not hold a
\* part of the file's entries.
C7_ReadAllOrNothing ==
    lastop = "read" =>
        IF perr = "none"
        THEN /\ Len(params) = Len(disk)
             /\ \A i \in 1..Len(disk) : params[i].key = disk[i].key
        ELSE ~PartlyLoaded

-----------------------------------------------------------------------------
(* Properties of the status queries *)

\* the evaluation has returned and the folder is as it was when it began
Settled == qpc[1] = "done" /\ ~dirty

HasLog == Len(SlurmFiles(slurm)) > 0

\* the text of the most recent qualifying log
LastLog == SlurmFiles(slurm)[Len(SlurmFiles(slurm))].marks

CrashedNotDone == HasLog /\ AbortMarker \in LastLog /\ DoneMarker \notin LastLog

\* C3 as stated: when the most recent qualifying log holds the crash marker
\* and not the completion marker, whatever else it holds, complete is
\* false, reason_incomplete is "crashed" and failed is true.
C3_CrashedWhateverElse ==
    (Settled /\ CrashedNotDone) =>
        /\ qres.err = "none"
        /\ qkind \in {"complete", "failed"} => qres.complete = "false"
        /\ qkind \in {"reason_incomplete", "failed"} => qres.reason = "crashed"
        /\ qkind = "failed" => qres.failed = "true"

\* C3 amended: when the most recent qualifying log holds the crash marker
\* and not the completion marker, complete is false and failed is true; and
\* reason_incomplete is "crashed" provided the log holds neither the
\* time-limit nor the preemption marker, which are tested first.
C3_CrashedFirstMatch ==
    (Settled /\ CrashedNotDone) =>
        /\ qres.err = "none"
        /\ qkind \in {"complete", "failed"} => qres.complete = "false"
        /\ qkind = "failed" => qres.failed = "true"
        /\ (/\ qkind \in {"reason_incomplete", "failed"}
            /\ TimeMarker \notin LastLog
            /\ PreemptMarker \notin LastLog) => qres.reason = "crashed"

\* failed has returned for a folder with two logs, the newer of which does
\* not qualify, and the older of which holds the crash marker alone
C3_Witness ==
    /\ Settled /\ CrashedNotDone /\ qkind = "failed"
    /\ TimeMarker \notin LastLog /\ PreemptMarker \notin LastLog
    /\ Len(slurm) = 2 /\ ~IsFlashLog(slurm[2])
    /\ qres.reason = "crashed" /\ qres.failed = "true"

\* C4: failed never raises, whatever the job writes between its reads, and
\* returns a boolean.
C4_FailedNeverRaises ==
    qkind = "failed" =>
        /\ qres.err = "none"
        /\ qpc[1] = "done" => qres.failed \in {"true", "false"}

-----------------------------------------------------------------------------
(* Properties of the SimulationGrid *)

RECURSIVE IsUnder(_, _)
IsUnder(d, r) == d = r \/ (d > 1 /\ IsUnder(d \div 2, r))

\* the folders at or below r that hold input.txt
Matching(r) == {d \in Dirs : IsUnder(d, r) /\ dirs[d].par}

Range(q) == {q[i] : i \in 1..Len(q)}

C6_AccessRepeatsConstruction ==
    (grid.state = "ok" /\ gout.op = "sims") =>
        (gout.paths = grid.ctor /\ gout.paths # <<>>)

\* C8: on a constructed grid none of the three filters raises;
\* complete_sims holds the simulations that are complete and
\* incomplete_sims the others.
C8_FiltersNeverRaise ==
    grid.state = "ok" =>
        /\ gout.op \in {"complete_sims", "incomplete_sims", "failed_sims"} =>
              gout.err = "none"
        /\ gout.op = "complete_sims" =>
              gout.paths = SelectSeq(SimPaths(dirs, Yielded(grid)),
                                     LAMBDA d : SimComplete(dirs, d))
        /\ gout.op = "incomplete_sims" =>
              gout.paths = SelectSeq(SimPaths(dirs, Yielded(grid)),
                                     LAMBDA d : ~SimComplete(dirs, d))

-----------------------------------------------------------------------------
(* Properties of restart() *)

RECURSIVE MaxOf(_)
MaxOf(S) ==
    LET x == CHOOSE x \in S : TRUE
    IN  IF S = {x} THEN x
        ELSE LET m == MaxOf(S \ {x}) IN IF x > m THEN x ELSE m

HighestNumber == MaxOf({Number(c) : c \in chk})

\* C9: with at least one checkpoint, restart sets 'restart' to true and
\* 'checkpointfilenumber' to the highest number among the checkpoint files,
\* then writes the file, and only then runs the command: the file the
\* command finds on disk is the updated one.
C9_RestartFromHighest ==
    /\ rpc \in {"numbered", "written"} =>
          /\ ValueOf(params, "restart") = BoolVal(TRUE)
          /\ ValueOf(params, "checkpointfilenumber") = IntVal(HighestNumber)
    /\ rpc = "written" => disk = Serialize(params)
    /\ \A i \in 1..Len(runs) :
          runs[i].by = "restart" =>
              \E j \in 1..Len(runs[i].disk) :
                  runs[i].disk[j] = Line("restart", TrueString)

\* C10: a restart that fails for want of a checkpoint has no effect: the
\* command was not run, the file on disk and the mapping in memory are as
\* they were before the call.
C10_FailedRestartNoEffect ==
    rpc = "IndexError" =>
        /\ runs = before.runs
        /\ disk = before.disk
        /\ params = before.params

====
